---- MODULE Spec2Model ----
(***************************************************************************)
(* SilentSurge: the screening pipeline of GET /api/screen.                 *)
(*                                                                         *)
(* Percentages are integers in thousandths of a percentage point (6% is    *)
(* 6000), so that Math.round(x * 100) / 100 is a real rounding step.       *)
(* Strings that the code takes apart (symbols, tickers, post texts) are    *)
(* sequences of one-character strings.                                     *)
(***************************************************************************)
EXTENDS Integers, Sequences, FiniteSets, TLC

VARIABLES
    alertedTickers, \* _alertedTickers: the module-level Set of GET /api/screen
    env,            \* process.env: the credentials
    twitterClient,  \* _client of twitter.ts: "none" for null
    req,            \* the GET invocations in flight, one record per slot
    scans,          \* number of GET invocations started so far
    delivered,      \* history: per ticker, sendWhatsAppAlert calls that returned true
    failed,         \* history: tickers some sendWhatsAppAlert call returned false for
    probe,          \* one adapter call on its own: its input and its result
    now,            \* Date.now(), in ms since the process started
    redditCache,    \* _cache of reddit.ts
    deliveryCache,  \* _cache of delivery.ts: the Map, per ticker
    calls           \* the calls of the two caching adapters, one record per slot

\* The clock, the two adapter caches and the calls that go through them.
cacheVars == <<now, redditCache, deliveryCache, calls>>

vars == <<alertedTickers, env, twitterClient, req, scans, delivered, failed, probe,
          cacheVars>>

\* ------------------------------------------------------------------ bounds

\* GET invocations over one process lifetime.
MaxScans == 3

\* Two request slots: two GET invocations may overlap at their await points.
Reqs == {"r1", "r2"}

\* ------------------------------------------------------------- constants.ts

MIN_PUMP_PERCENT == 4
MAX_DELIVERY_PERCENT == 30
MAX_R2_PROXIMITY == 1
MIN_SECTOR_OUTPERFORMANCE == 2
MAX_MENTIONS == 0

\* n percent in thousandths of a percentage point.
Pct(n) == n * 1000

\* The watchlist (NIFTY_200_SYMBOLS), cut down to two symbols.
SymA == <<"A", ".", "N", "S">>
SymB == <<"B", ".", "N", "S">>
NIFTY_200_SYMBOLS == <<SymA, SymB>>

\* symbol.replace(/\.(NS|BO)$/, "")
tickerFromSymbol(symbol) ==
    LET n == Len(symbol) IN
    IF n >= 3 /\ SubSeq(symbol, n - 2, n) \in {<<".", "N", "S">>, <<".", "B", "O">>}
    THEN SubSeq(symbol, 1, n - 3)
    ELSE symbol

Tickers == {tickerFromSymbol(NIFTY_200_SYMBOLS[i]) : i \in DOMAIN NIFTY_200_SYMBOLS}

\* ------------------------------------------------------------------ numbers

\* floor(num / den + 1/2) for den > 0: Math.round of the exact quotient.
RoundDiv(num, den) == (2 * num + den) \div (2 * den)

\* Math.round(x * 100) / 100 for x = num / den thousandths; result in thousandths.
Round2Of(num, den) == RoundDiv(num, 10 * den) * 10

\* round2(n) of pivots.ts, for an integer number of thousandths.
round2(n) == Round2Of(n, 1)

Abs(n) == IF n < 0 THEN -n ELSE n

\* ------------------------------------------------------------------ sorting

\* Array.prototype.sort(cmp) is stable: x goes before the first element e of
\* the sorted prefix with cmp(e, x) > 0.
\* later: the indices j of s with cmp(s[j], x) > 0.
InsertBefore(x, s, later) ==
    LET pos == IF later = {} THEN Len(s) + 1
               ELSE CHOOSE j \in later : \A k \in later : j <= k
    IN SubSeq(s, 1, pos - 1) \o <<x>> \o SubSeq(s, pos, Len(s))

RECURSIVE SortGainers(_)

\* ------------------------------------------------------ the mention matcher

WhiteSpace == {" ", "\t", "\n", "\r"}
PreDelims == WhiteSpace \cup {"$", "#"}
PostDelims == WhiteSpace \cup {",", ";", ".", "!", "?", ")", "]"}

LowerCase == <<"a", "b", "c", "d", "e", "f", "g", "h", "i", "j", "k", "l", "m",
               "n", "o", "p", "q", "r", "s", "t", "u", "v", "w", "x", "y", "z">>
UpperCase == <<"A", "B", "C", "D", "E", "F", "G", "H", "I", "J", "K", "L", "M",
               "N", "O", "P", "Q", "R", "S", "T", "U", "V", "W", "X", "Y", "Z">>

\* The "i" flag: letters compare by their upper-case form.
Fold(c) ==
    IF \E k \in 1..26 : LowerCase[k] = c
    THEN UpperCase[CHOOSE k \in 1..26 : LowerCase[k] = c]
    ELSE c

\* The ticker anywhere in the text, whatever is next to it.
MentionsTicker_NoBoundary(ticker, text) ==
    LET n == Len(ticker) IN
    \E p \in 1..(Len(text) - n + 1) :
        \A k \in 1..n : Fold(text[p + k - 1]) = Fold(ticker[k])

\* new RegExp(`(?:^|[\\s$#])${escapeRegex(ticker)}(?=[\\s,;.!?)\\]]|$)`, "gi").test(text)
\* escapeRegex makes every character of the ticker a literal.
MentionsTicker(ticker, text) ==
    LET n == Len(ticker) IN
    \E p \in 1..(Len(text) - n + 1) :
        /\ \A k \in 1..n : Fold(text[p + k - 1]) = Fold(ticker[k])
        /\ p = 1 \/ text[p - 1] \in PreDelims
        /\ p + n > Len(text) \/ text[p + n] \in PostDelims

\* `${post.data.title} ${post.data.selftext}`
JoinText(title, selftext) == title \o <<" ">> \o selftext

\* ------------------------------------------------------------ the adapters
\* An adapter call ends in a value or in an exception that reaches its caller:
\* [threw |-> FALSE, value |-> v] or [threw |-> TRUE].

Returns(v) == [threw |-> FALSE, value |-> v]
Throws == [threw |-> TRUE]

Mention(platform, title) == [platform |-> platform, title |-> title]

\* The placeholder of .env.example counts as a token.
getClient_PlaceholderIsToken(client, token) ==
    IF client # "none" THEN client
    ELSE IF token = "unset" THEN "none"
    ELSE "client"

\* getClient: the cached client, else one made from TWITTER_BEARER_TOKEN.
\* Gives the client ("none" for null) this call uses.
getClient(client, token) ==
    IF client # "none" THEN client
    ELSE IF token \in {"unset", "placeholder"} THEN "none"
    ELSE "client"

\* The calls of roClient.v2.search one call of searchTwitterMentions makes.
TwitterSearches(client) == IF client = "none" THEN 0 ELSE 1

\* searchTwitterMentions. up: what roClient.v2.search does:
\* [kind |-> "error"] or [kind |-> "result", hasData |-> b, tweets |-> <<text, ...>>].
searchTwitterMentions(client, up) ==
    IF client = "none" THEN Returns(<<>>)
    ELSE IF up.kind = "error" THEN Returns(<<>>)
    ELSE IF ~up.hasData THEN Returns(<<>>)
    ELSE Returns([i \in 1..Len(up.tweets) |-> Mention("twitter", up.tweets[i])])

\* fetchPosts past its cache check. up: what fetch(SUBREDDIT_JSON_URL) gives:
\*   [kind |-> "network_error"], [kind |-> "http_error"], [kind |-> "bad_json"],
\*   [kind |-> "json", shape |-> "null"]              json is null
\*   [kind |-> "json", shape |-> "no_data"]           json.data is undefined
\*   [kind |-> "json", shape |-> "no_children"]       json.data.children is undefined
\*   [kind |-> "json", shape |-> "children_scalar"]   json.data.children is no array
\*   [kind |-> "json", shape |-> "listing", children |-> <<child, ...>>]
\* child: [hasData |-> TRUE, title |-> t, selftext |-> s] or [hasData |-> FALSE].
\* Gives [store |-> the cache is written, iterable |-> b, posts |-> <<...>>].
fetchPosts(up) ==
    IF up.kind # "json" \/ up.shape = "null"
    THEN [store |-> FALSE, iterable |-> TRUE, posts |-> <<>>]
    ELSE IF up.shape \in {"no_data", "no_children"}
    THEN [store |-> TRUE, iterable |-> TRUE, posts |-> <<>>]
    ELSE IF up.shape = "children_scalar"
    THEN [store |-> TRUE, iterable |-> FALSE, posts |-> <<>>]
    ELSE [store |-> TRUE, iterable |-> TRUE, posts |-> up.children]

RECURSIVE ScanPosts(_, _, _)
\* The for..of loop of searchRedditMentions from post i on; post.data.title of a
\* post without data is a TypeError, outside any try.
ScanPosts(ticker, posts, i) ==
    IF i > Len(posts) THEN Returns(<<>>)
    ELSE IF ~posts[i].hasData THEN Throws
    ELSE LET rest == ScanPosts(ticker, posts, i + 1)
             hit == MentionsTicker(ticker, JoinText(posts[i].title, posts[i].selftext))
         IN IF rest.threw THEN Throws
            ELSE IF hit THEN Returns(<<Mention("reddit", posts[i].title)>> \o rest.value)
            ELSE rest

\* searchRedditMentions, given what fetchPosts returned.
searchRedditMentions(ticker, fetched) ==
    IF ~fetched.iterable THEN Throws
    ELSE ScanPosts(ticker, fetched.posts, 1)

RECURSIVE ScanUpdates(_, _, _)
\* The loop of searchTelegramMentions from update i on.
\* update: [hasText |-> TRUE, text |-> t] or [hasText |-> FALSE].
ScanUpdates(ticker, updates, i) ==
    IF i > Len(updates) THEN <<>>
    ELSE LET rest == ScanUpdates(ticker, updates, i + 1) IN
         IF updates[i].hasText /\ MentionsTicker(ticker, updates[i].text)
         THEN <<Mention("telegram", updates[i].text)>> \o rest
         ELSE rest

\* The calls of fetch(getUpdates) one call of searchTelegramMentions makes.
TelegramFetches(token) == IF token \in {"unset", "placeholder"} THEN 0 ELSE 1

\* searchTelegramMentions. up: what fetch(getUpdates) gives:
\*   [kind |-> "network_error"], [kind |-> "http_error"], [kind |-> "bad_json"],
\*   [kind |-> "json", shape |-> "null"], [kind |-> "json", shape |-> "not_ok"],
\*   [kind |-> "json", shape |-> "result_scalar"],
\*   [kind |-> "json", shape |-> "updates", result |-> <<update, ...>>]
searchTelegramMentions(token, ticker, up) ==
    IF token \in {"unset", "placeholder"} THEN Returns(<<>>)
    ELSE IF up.kind # "json" THEN Returns(<<>>)
    ELSE IF up.shape # "updates" THEN Returns(<<>>)
    ELSE Returns(ScanUpdates(ticker, up.result, 1))

\* The unavailable sentinel is cached like a percentage.
getDeliveryPercent_CachesUnavailable(up) ==
    IF up.kind # "dp" THEN [store |-> TRUE, result |-> Returns(-Pct(1))]
    ELSE IF up.quantityTraded = 0 THEN [store |-> TRUE, result |-> Returns(-Pct(1))]
    ELSE [store |-> TRUE,
          result |-> Returns(RoundDiv(up.deliveryQuantity * 10000, up.quantityTraded) * 10)]

\* getDeliveryPercent past its cache check. up: what getEquityTradeInfo gives:
\*   [kind |-> "error"], [kind |-> "no_dp"],
\*   [kind |-> "dp", deliveryQuantity |-> d, quantityTraded |-> t]
\* d and t are what parseFloat made of the two quantities (0 for a missing one;
\* text that is no number, which gives NaN, is left out).
\* Math.round((d / t) * 10000) / 100 is a percentage with two decimals.
\* Gives [store |-> the cache is written, result |-> Returns(thousandths)].
getDeliveryPercent(up) ==
    IF up.kind # "dp" THEN [store |-> FALSE, result |-> Returns(-Pct(1))]
    ELSE IF up.quantityTraded = 0 THEN [store |-> FALSE, result |-> Returns(-Pct(1))]
    ELSE [store |-> TRUE,
          result |-> Returns(RoundDiv(up.deliveryQuantity * 10000, up.quantityTraded) * 10)]

\* The last bar, today's partial candle, is taken for the previous day.
getPivotData_LastBar(currentPrice, up) ==
    IF up.kind # "bars" THEN Returns([isNull |-> TRUE])
    ELSE IF Len(up.quotes) < 2 THEN Returns([isNull |-> TRUE])
    ELSE LET prevDay == up.quotes[Len(up.quotes)]
             high == prevDay.high
             low == prevDay.low
             close == prevDay.close
             pivot3 == high + low + close
             r1x3 == 2 * pivot3 - 3 * low
             r2x3 == pivot3 + 3 * (high - low)
             dist3 == Abs(3 * currentPrice - r2x3)
         IN IF high = 0 \/ low = 0 \/ close = 0 THEN Returns([isNull |-> TRUE])
            ELSE Returns([isNull |-> FALSE,
                          prevHigh |-> round2(Pct(high)),
                          prevLow |-> round2(Pct(low)),
                          prevClose |-> round2(Pct(close)),
                          pivot |-> Round2Of(Pct(pivot3), 3),
                          r1 |-> Round2Of(Pct(r1x3), 3),
                          r2 |-> Round2Of(Pct(r2x3), 3),
                          r2Proximity |-> Round2Of(Pct(100) * dist3, r2x3),
                          nearR2 |-> 100 * dist3 <= r2x3])

\* nearR2 is taken from the rounded proximity.
getPivotData_NearFromRounded(currentPrice, up) ==
    IF up.kind # "bars" THEN Returns([isNull |-> TRUE])
    ELSE IF Len(up.quotes) < 2 THEN Returns([isNull |-> TRUE])
    ELSE LET prevDay == up.quotes[Len(up.quotes) - 1]
             high == prevDay.high
             low == prevDay.low
             close == prevDay.close
             pivot3 == high + low + close
             r1x3 == 2 * pivot3 - 3 * low
             r2x3 == pivot3 + 3 * (high - low)
             dist3 == Abs(3 * currentPrice - r2x3)
         IN IF high = 0 \/ low = 0 \/ close = 0 THEN Returns([isNull |-> TRUE])
            ELSE Returns([isNull |-> FALSE,
                          prevHigh |-> round2(Pct(high)),
                          prevLow |-> round2(Pct(low)),
                          prevClose |-> round2(Pct(close)),
                          pivot |-> Round2Of(Pct(pivot3), 3),
                          r1 |-> Round2Of(Pct(r1x3), 3),
                          r2 |-> Round2Of(Pct(r2x3), 3),
                          r2Proximity |-> Round2Of(Pct(100) * dist3, r2x3),
                          nearR2 |-> Round2Of(Pct(100) * dist3, r2x3) <= Pct(1)])

\* getPivotData. up: what yahooFinance.chart gives:
\*   [kind |-> "error"], [kind |-> "bars", quotes |-> <<bar, ...>>]
\* bar: [high |-> h, low |-> l, close |-> c], 0 standing for a missing field.
\* Prices are whole rupees; pivot = (h + l + c) / 3 keeps its thirds, so
\* r2 = (4h - 2l + c) / 3 and r2Proximity = |3 price - (4h - 2l + c)| / (4h - 2l + c) * 100.
\* Gives Returns([isNull |-> TRUE]) for null, else Returns(PivotData), amounts in
\* thousandths.
getPivotData(currentPrice, up) ==
    IF up.kind # "bars" THEN Returns([isNull |-> TRUE])
    ELSE IF Len(up.quotes) < 2 THEN Returns([isNull |-> TRUE])
    ELSE LET prevDay == up.quotes[Len(up.quotes) - 1]
             high == prevDay.high
             low == prevDay.low
             close == prevDay.close
             pivot3 == high + low + close
             r1x3 == 2 * pivot3 - 3 * low
             r2x3 == pivot3 + 3 * (high - low)
             dist3 == Abs(3 * currentPrice - r2x3)
         IN IF high = 0 \/ low = 0 \/ close = 0 THEN Returns([isNull |-> TRUE])
            ELSE Returns([isNull |-> FALSE,
                          prevHigh |-> round2(Pct(high)),
                          prevLow |-> round2(Pct(low)),
                          prevClose |-> round2(Pct(close)),
                          pivot |-> Round2Of(Pct(pivot3), 3),
                          r1 |-> Round2Of(Pct(r1x3), 3),
                          r2 |-> Round2Of(Pct(r2x3), 3),
                          r2Proximity |-> Round2Of(Pct(100) * dist3, r2x3),
                          nearR2 |-> 100 * dist3 <= r2x3])

\* getNiftyChangePercent. up: what yahooFinance.quote(NIFTY_50_SYMBOL) gives:
\*   [kind |-> "error"], [kind |-> "quote", hasChange |-> b, changePercent |-> c]
getNiftyChangePercent(up) ==
    IF up.kind # "quote" THEN Returns(0)
    ELSE IF ~up.hasChange THEN Returns(0)
    ELSE Returns(up.changePercent)

\* One quote of getTopGainers:
\*   [kind |-> "error"]  the quote promise rejected, .catch(() => null)
\*   [kind |-> "quote", symbol |-> s, price |-> p, hasChange |-> b, changePercent |-> c]
CmpGainers(a, b) == b.changePercent - a.changePercent

SortGainers(s) ==
    IF s = <<>> THEN <<>>
    ELSE LET x == s[Len(s)]
             front == SortGainers(SubSeq(s, 1, Len(s) - 1))
         IN InsertBefore(x, front, {j \in 1..Len(front) : CmpGainers(front[j], x) > 0})

RECURSIVE CollectQuotes(_, _, _)
\* The loop over results: skips failed quotes and quotes below minChangePercent.
CollectQuotes(results, minChangePercent, i) ==
    IF i > Len(results) THEN <<>>
    ELSE LET q == results[i]
             rest == CollectQuotes(results, minChangePercent, i + 1)
             changePercent == IF q.kind = "quote" /\ q.hasChange THEN q.changePercent ELSE 0
         IN IF q.kind # "quote" THEN rest
            ELSE IF changePercent < minChangePercent THEN rest
            ELSE <<[symbol |-> q.symbol, price |-> q.price,
                    changePercent |-> changePercent]>> \o rest

\* allQuotes.sort is left out.
getTopGainers_Unsorted(results, minChangePercent) ==
    CollectQuotes(results, minChangePercent, 1)

\* getTopGainers(minChangePercent), given the quote of each watchlist symbol.
getTopGainers(results, minChangePercent) ==
    SortGainers(CollectQuotes(results, minChangePercent, 1))

\* sendWhatsAppAlert. e: process.env; up: what fetch(Twilio) does:
\* "ok" (res.ok), "http_error" (a non-OK status) or "network_error" (fetch rejects).
sendWhatsAppAlert(e, up) ==
    IF "unset" \in {e.twilioSid, e.twilioToken, e.twilioFrom, e.twilioTo} THEN FALSE
    ELSE IF e.twilioSid = "placeholder" \/ e.twilioToken = "placeholder" THEN FALSE
    ELSE up = "ok"

\* ------------------------------------------------- enrichment of one gainer

\* The telegram count is left out of the sum.
TotalMentions_NoTelegram(twitterMentions, redditMentions, telegramMentions) ==
    twitterMentions + redditMentions

\* const totalMentions = twitterMentions + redditMentions + telegramMentions
TotalMentions(twitterMentions, redditMentions, telegramMentions) ==
    twitterMentions + redditMentions + telegramMentions

\* The change is multiplied by 1 + totalMentions instead of divided.
SilenceScore_Multiplied(changePercent, totalMentions) ==
    round2(changePercent * (1 + totalMentions))

\* Math.round((stock.changePercent / (1 + totalMentions)) * 100) / 100
SilenceScore(changePercent, totalMentions) ==
    Round2Of(changePercent, 1 + totalMentions)

\* GET, "Social mentions" to "Sector outperformance": the fields of StockData
\* but status and alertSent. name, change, volume and marketCap are copied through
\* and left out.
Enrichment(stock, twitterResults, redditResults, telegramResults, deliveryPercent, pivotData, niftyChangePercent) ==
    LET twitterMentions == Len(twitterResults)
        redditMentions == Len(redditResults)
        telegramMentions == Len(telegramResults)
        totalMentions == TotalMentions(twitterMentions, redditMentions, telegramMentions)
    IN [symbol |-> stock.symbol,
        price |-> stock.price,
        changePercent |-> stock.changePercent,
        twitterMentions |-> twitterMentions,
        redditMentions |-> redditMentions,
        telegramMentions |-> telegramMentions,
        totalMentions |-> totalMentions,
        silenceScore |-> SilenceScore(stock.changePercent, totalMentions),
        mentions |-> twitterResults \o redditResults \o telegramResults,
        deliveryPercent |-> deliveryPercent,
        pivotR2 |-> IF pivotData.isNull THEN 0 ELSE pivotData.r2,
        r2Proximity |-> IF pivotData.isNull THEN -Pct(1) ELSE pivotData.r2Proximity,
        nearR2 |-> IF pivotData.isNull THEN FALSE ELSE pivotData.nearR2,
        sectorOutperformance |-> round2(stock.changePercent - niftyChangePercent)]

\* The delivery criterion has no lower bound.
Criteria_NoLowerBound(e) ==
    [passesDelivery |-> e.deliveryPercent < Pct(MAX_DELIVERY_PERCENT),
     passesR2 |-> e.nearR2,
     passesSector |-> e.sectorOutperformance >= Pct(MIN_SECTOR_OUTPERFORMANCE),
     passesMentions |-> e.totalMentions <= MAX_MENTIONS]

\* GET, "Status classification": the four criteria of an enriched stock.
Criteria(e) ==
    [passesDelivery |-> e.deliveryPercent >= 0
                        /\ e.deliveryPercent < Pct(MAX_DELIVERY_PERCENT),
     passesR2 |-> e.nearR2,
     passesSector |-> e.sectorOutperformance >= Pct(MIN_SECTOR_OUTPERFORMANCE),
     passesMentions |-> e.totalMentions <= MAX_MENTIONS]

\* [passesDelivery, passesR2, passesSector, passesMentions].filter(Boolean).length
PassCount(c) ==
    (IF c.passesDelivery THEN 1 ELSE 0) + (IF c.passesR2 THEN 1 ELSE 0)
    + (IF c.passesSector THEN 1 ELSE 0) + (IF c.passesMentions THEN 1 ELSE 0)

\* Once a ticker has been alerted, no stock is classified "alert" any more.
Classify_QuietAfterAlert(c) ==
    IF c.passesDelivery /\ c.passesR2 /\ c.passesSector /\ c.passesMentions
       /\ alertedTickers = {}
    THEN "alert"
    ELSE IF PassCount(c) >= 2 THEN "watch"
    ELSE "filtered"

\* A watch threshold of three criteria instead of two.
Classify_WatchFromThree(c) ==
    IF c.passesDelivery /\ c.passesR2 /\ c.passesSector /\ c.passesMentions THEN "alert"
    ELSE IF PassCount(c) >= 3 THEN "watch"
    ELSE "filtered"

\* The if / else if / else that sets status.
Classify(c) ==
    IF c.passesDelivery /\ c.passesR2 /\ c.passesSector /\ c.passesMentions THEN "alert"
    ELSE IF PassCount(c) >= 2 THEN "watch"
    ELSE "filtered"

\* statusPriority
statusPriority(status) ==
    CASE status = "alert" -> 0
      [] status = "watch" -> 1
      [] status = "filtered" -> 2

\* The silence scores are subtracted the other way round.
CmpStocks_Ascending(a, b) ==
    LET p == statusPriority(a.status) - statusPriority(b.status) IN
    IF p # 0 THEN p ELSE a.silenceScore - b.silenceScore

\* The comparator of enriched.sort.
CmpStocks(a, b) ==
    LET p == statusPriority(a.status) - statusPriority(b.status) IN
    IF p # 0 THEN p ELSE b.silenceScore - a.silenceScore

\* The filtered stocks are left out of the list.
SortStocks_DropsFiltered(s) == SelectSeq(s, LAMBDA x : x.status # "filtered")

RECURSIVE SortStocks(_)
SortStocks(s) ==
    IF s = <<>> THEN <<>>
    ELSE LET x == s[Len(s)]
             front == SortStocks(SubSeq(s, 1, Len(s) - 1))
         IN InsertBefore(x, front, {j \in 1..Len(front) : CmpStocks(front[j], x) > 0})

\* ------------------------------------------------- what the upstreams answer
\* The answers one scan can get, cut down to a few of each kind.  An answer from
\* an adapter's cache is an answer an earlier fetch gave, so it is among these.

Quiet == <<"n", "o">>
Chatter == <<"$", "A", " ", "#", "b">>

RedditQuiet == [kind |-> "json", shape |-> "listing",
                children |-> <<[hasData |-> TRUE, title |-> Quiet, selftext |-> <<>>]>>]
RedditChatter == [kind |-> "json", shape |-> "listing",
                  children |-> <<[hasData |-> TRUE, title |-> Chatter, selftext |-> <<>>]>>]
RedditBroken == [kind |-> "json", shape |-> "listing", children |-> <<[hasData |-> FALSE]>>]

TwitterQuiet == [kind |-> "result", hasData |-> FALSE, tweets |-> <<>>]
TwitterChatter == [kind |-> "result", hasData |-> TRUE, tweets |-> <<Chatter>>]

TelegramQuiet == [kind |-> "json", shape |-> "updates", result |-> <<>>]
TelegramChatter == [kind |-> "json", shape |-> "updates",
                    result |-> <<[hasText |-> TRUE, text |-> Chatter]>>]

DeliveryLow == [kind |-> "dp", deliveryQuantity |-> 20, quantityTraded |-> 100]
DeliveryHigh == [kind |-> "dp", deliveryQuantity |-> 45, quantityTraded |-> 100]
DeliveryDown == [kind |-> "error"]

PivotBars == [kind |-> "bars",
              quotes |-> <<[high |-> 110, low |-> 90, close |-> 100],
                           [high |-> 121, low |-> 100, close |-> 121]>>]
\* Daily bars with R2 = 30002 / 3 = 10000.67: the price 10101 lies 1.0033% from
\* R2 and the price 10100 lies 0.9933% from it.
PivotEdge == [kind |-> "bars",
              quotes |-> <<[high |-> 10000, low |-> 9999, close |-> 10000],
                           [high |-> 10101, low |-> 10000, close |-> 10101]>>]

PivotDown == [kind |-> "error"]

\* What the five lookups of one gainer answer.
Lookups ==
    {[tw |-> TwitterQuiet, rd |-> RedditQuiet, tg |-> TelegramQuiet,
      dp |-> DeliveryLow, pv |-> PivotBars],
     [tw |-> TwitterQuiet, rd |-> RedditChatter, tg |-> TelegramQuiet,
      dp |-> DeliveryLow, pv |-> PivotBars],
     [tw |-> TwitterQuiet, rd |-> RedditQuiet, tg |-> TelegramQuiet,
      dp |-> DeliveryDown, pv |-> PivotDown],
     [tw |-> TwitterQuiet, rd |-> RedditQuiet, tg |-> TelegramQuiet,
      dp |-> DeliveryDown, pv |-> PivotBars],
     [tw |-> TwitterChatter, rd |-> RedditQuiet, tg |-> TelegramChatter,
      dp |-> DeliveryHigh, pv |-> PivotBars],
     [tw |-> TwitterQuiet, rd |-> RedditBroken, tg |-> TelegramQuiet,
      dp |-> DeliveryLow, pv |-> PivotBars]}

Quote(symbol, price, changePercent) ==
    [kind |-> "quote", symbol |-> symbol, price |-> price,
     hasChange |-> TRUE, changePercent |-> changePercent]

\* The quotes of the watchlist, one per symbol, in watchlist order.
QuoteVectors ==
    {<<qa, qb>> : qa \in {[kind |-> "error"], Quote(SymA, 121, 6000), Quote(SymA, 110, 6000)},
                  qb \in {Quote(SymB, 121, 3000), Quote(SymB, 121, 8000),
                          [kind |-> "quote", symbol |-> SymB, price |-> 121,
                           hasChange |-> FALSE, changePercent |-> 0]}}

NiftyUps == {[kind |-> "error"],
             [kind |-> "quote", hasChange |-> TRUE, changePercent |-> 4500]}

TwilioUps == {"ok", "http_error", "network_error"}

\* process.env over one process lifetime.
Envs ==
    {[twilioSid |-> k, twilioToken |-> k, twilioFrom |-> k, twilioTo |-> "real",
      twitterToken |-> k, telegramToken |-> k] : k \in {"real", "placeholder"}}
    \cup {[twilioSid |-> "real", twilioToken |-> "real", twilioFrom |-> "real",
           twilioTo |-> "unset", twitterToken |-> "unset", telegramToken |-> "unset"]}

\* The answers of the runs with two overlapping GETs.
LookupsOverlap ==
    {[tw |-> TwitterQuiet, rd |-> RedditQuiet, tg |-> TelegramQuiet,
      dp |-> DeliveryLow, pv |-> PivotBars],
     [tw |-> TwitterQuiet, rd |-> RedditChatter, tg |-> TelegramQuiet,
      dp |-> DeliveryLow, pv |-> PivotBars],
     [tw |-> TwitterQuiet, rd |-> RedditBroken, tg |-> TelegramQuiet,
      dp |-> DeliveryLow, pv |-> PivotBars]}

QuoteVectorsOverlap ==
    {<<qa, qb>> : qa \in {[kind |-> "error"], Quote(SymA, 121, 6000)},
                  qb \in {Quote(SymB, 121, 3000), Quote(SymB, 121, 8000)}}

NiftyUpsOverlap == {[kind |-> "error"]}

EnvsOverlap == {e \in Envs : e.twilioSid = "real"}

\* ---------------------------------------------------------- GET /api/screen

NoResponse == [kind |-> "none"]

\* alertsSent counts the stocks classified "alert", dispatched or not.
Report_CountsAlertStatus(stocks, totalScanned, alertsSent, niftyChangePercent) ==
    [kind |-> "report", httpStatus |-> 200, stocks |-> stocks,
     totalScanned |-> totalScanned,
     alertsSent |-> Cardinality({k \in DOMAIN stocks : stocks[k].status = "alert"}),
     niftyChangePercent |-> niftyChangePercent, hasError |-> FALSE, error |-> ""]

\* NextResponse.json(response): scannedAt, a timestamp, is left out.
Report(stocks, totalScanned, alertsSent, niftyChangePercent) ==
    [kind |-> "report", httpStatus |-> 200, stocks |-> stocks,
     totalScanned |-> totalScanned, alertsSent |-> alertsSent,
     niftyChangePercent |-> niftyChangePercent, hasError |-> FALSE, error |-> ""]

\* The benchmark is zeroed as in the error report.
EmptyReport_ZeroBenchmark(niftyChangePercent) == Report(<<>>, 0, 0, 0)

\* The report of a scan with no gainer.
EmptyReport(niftyChangePercent) == Report(<<>>, 0, 0, niftyChangePercent)

\* The error field is not set.
ErrorReport_NoMessage(message) ==
    [kind |-> "report", httpStatus |-> 500, stocks |-> <<>>,
     totalScanned |-> 0, alertsSent |-> 0,
     niftyChangePercent |-> 0, hasError |-> FALSE, error |-> ""]

\* NextResponse.json(errorResponse, { status: 500 })
ErrorReport(message) ==
    [kind |-> "report", httpStatus |-> 500, stocks |-> <<>>,
     totalScanned |-> 0, alertsSent |-> 0,
     niftyChangePercent |-> 0, hasError |-> TRUE, error |-> message]

\* A request slot before its GET starts.
\* quotes: what yahooFinance.quote answered for the watchlist (history).
IdleReq ==
    [pc |-> "idle", gainers |-> <<>>, niftyChangePercent |-> 0, alertsSent |-> 0,
     pipes |-> <<>>, response |-> NoResponse, adapterCalls |-> 0, known |-> {},
     quotes |-> <<>>]

NoProbe == [adapter |-> "none"]

\* Two call slots: two calls of one adapter may overlap at their await.
Calls == {"c1", "c2"}

\* null, and a ticker the Map has no entry for.
NoCache == [present |-> FALSE]

IdleCall == [pc |-> "idle"]

\* The clock and the caches when the modules are loaded.
CachesAtLoad ==
    /\ now = 0
    /\ redditCache = NoCache
    /\ deliveryCache = [t \in Tickers |-> NoCache]
    /\ calls = [c \in Calls |-> IdleCall]

Settled(r) == \A i \in DOMAIN req[r].pipes : req[r].pipes[i].pc \in {"done", "threw"}

Init ==
    /\ alertedTickers = {}
    /\ env \in Envs
    /\ twitterClient = "none"
    /\ req = [r \in Reqs |-> IdleReq]
    /\ scans = 0
    /\ delivered = [t \in Tickers |-> 0]
    /\ failed = {}
    /\ probe = NoProbe
    /\ CachesAtLoad

\* A callback whose lookups have not settled yet.
NoLookup == [kind |-> "none"]

\* GET is invoked: it runs to its first await, with both fetches started.
\* known: the tickers a notification went out for before this scan (history).
StartScan(r) ==
    /\ scans < MaxScans
    /\ req[r].pc \in {"idle", "returned"}
    /\ Settled(r)
    /\ scans' = scans + 1
    /\ req' = [req EXCEPT ![r] = [IdleReq EXCEPT !.pc = "fetch",
                                  !.known = {t \in Tickers : delivered[t] > 0}]]
    /\ UNCHANGED <<alertedTickers, env, twitterClient, delivered, failed, probe, cacheVars>>

\* Promise.all([getTopGainers, getNiftyChangePercent]) resolves.  With no gainer
\* GET returns at once; else gainers.map starts every gainer's five lookups.
FetchDone(r, quoteVectors, niftyUps) ==
    /\ req[r].pc = "fetch"
    /\ \E quotes \in quoteVectors, nu \in niftyUps :
        LET gainers == getTopGainers(quotes, Pct(MIN_PUMP_PERCENT))
            nifty == getNiftyChangePercent(nu).value
        IN IF Len(gainers) = 0
           THEN /\ req' = [req EXCEPT ![r].pc = "returned",
                                      ![r].quotes = quotes,
                                      ![r].gainers = gainers,
                                      ![r].niftyChangePercent = nifty,
                                      ![r].response = EmptyReport(nifty)]
                /\ UNCHANGED twitterClient
           ELSE /\ req' = [req EXCEPT ![r].pc = "enrich",
                                      ![r].quotes = quotes,
                                      ![r].gainers = gainers,
                                      ![r].niftyChangePercent = nifty,
                                      ![r].adapterCalls = 5 * Len(gainers),
                                      ![r].pipes = [i \in 1..Len(gainers) |->
                                          [pc |-> "lookup", stock |-> gainers[i],
                                           calls |-> 0, lookup |-> NoLookup]]]
                /\ twitterClient' = getClient(twitterClient, env.twitterToken)
    /\ UNCHANGED <<alertedTickers, env, scans, delivered, failed, probe, cacheVars>>

\* An alert goes out only while no ticker at all has been alerted.
ShouldSend_NoneAlerted(status, ticker) == status = "alert" /\ alertedTickers = {}

\* The status is not looked at.
ShouldSend_AnyStatus(status, ticker) == ticker \notin alertedTickers

\* status === "alert" and !_alertedTickers.has(ticker): sendWhatsAppAlert is called.
ShouldSend(status, ticker) == status = "alert" /\ ticker \notin alertedTickers

\* The add is forgotten.
AlertedAfter_NeverAdds(ticker, sent) == alertedTickers

\* The add does not look at sent.
AlertedAfter_AlwaysAdds(ticker, sent) == alertedTickers \cup {ticker}

\* if (sent) _alertedTickers.add(ticker)
AlertedAfter(ticker, sent) ==
    IF sent THEN alertedTickers \cup {ticker} ELSE alertedTickers

\* The five lookups of gainer i settle (the inner Promise.all) and its callback
\* runs on, to the await of sendWhatsAppAlert or to its return.  A lookup that
\* rejects rejects the callback and with it the outer Promise.all: GET's catch
\* answers with the error report, while the other callbacks keep running.
\* lookup: what the five upstreams answered this gainer (history).
LookupDone(r, i, lookups) ==
    /\ i \in DOMAIN req[r].pipes
    /\ req[r].pipes[i].pc = "lookup"
    /\ \E up \in lookups :
        LET stock == req[r].pipes[i].stock
            ticker == tickerFromSymbol(stock.symbol)
            twitterResults == searchTwitterMentions(twitterClient, up.tw)
            redditResults == searchRedditMentions(ticker, fetchPosts(up.rd))
            telegramResults == searchTelegramMentions(env.telegramToken, ticker, up.tg)
            deliveryPercent == getDeliveryPercent(up.dp).result
            pivotData == getPivotData(stock.price, up.pv)
            threw == \/ twitterResults.threw \/ redditResults.threw
                     \/ telegramResults.threw \/ deliveryPercent.threw
                     \/ pivotData.threw
            e == Enrichment(stock, twitterResults.value, redditResults.value,
                            telegramResults.value, deliveryPercent.value,
                            pivotData.value, req[r].niftyChangePercent)
            status == Classify(Criteria(e))
            sends == ShouldSend(status, ticker)
        IN IF threw
           THEN req' = [req EXCEPT
                    ![r].pipes[i].pc = "threw",
                    ![r].pipes[i].lookup = up,
                    ![r].pc = "returned",
                    ![r].response = IF req[r].pc = "enrich" THEN ErrorReport("TypeError")
                                    ELSE @]
           ELSE req' = [req EXCEPT
                    ![r].pipes[i] = [pc |-> IF sends THEN "sending" ELSE "done",
                                     stock |-> e @@ [status |-> status, alertSent |-> FALSE],
                                     calls |-> IF sends THEN 1 ELSE 0,
                                     lookup |-> up]]
    /\ UNCHANGED <<alertedTickers, env, twitterClient, scans, delivered, failed, probe, cacheVars>>

\* await sendWhatsAppAlert(...) resumes: the rest of the callback of gainer i.
SendDone(r, i) ==
    /\ i \in DOMAIN req[r].pipes
    /\ req[r].pipes[i].pc = "sending"
    /\ \E up \in TwilioUps :
        LET ticker == tickerFromSymbol(req[r].pipes[i].stock.symbol)
            sent == sendWhatsAppAlert(env, up)
        IN /\ alertedTickers' = AlertedAfter(ticker, sent)
           /\ IF sent
              THEN /\ delivered' = [delivered EXCEPT ![ticker] = @ + 1]
                   /\ req' = [req EXCEPT ![r].alertsSent = @ + 1,
                                         ![r].pipes[i].stock.alertSent = TRUE,
                                         ![r].pipes[i].pc = "done"]
                   /\ UNCHANGED failed
              ELSE /\ failed' = failed \cup {ticker}
                   /\ req' = [req EXCEPT                                          ![r].pipes[i].pc = "done"]
                   /\ UNCHANGED delivered
    /\ UNCHANGED <<env, twitterClient, scans, probe, cacheVars>>

\* The outer Promise.all resolves: sort and answer.
Finish(r) ==
    /\ req[r].pc = "enrich"
    /\ \A i \in DOMAIN req[r].pipes : req[r].pipes[i].pc = "done"
    /\ LET enriched == [i \in DOMAIN req[r].pipes |-> req[r].pipes[i].stock] IN
       req' = [req EXCEPT ![r].pc = "returned",
                          ![r].response = Report(SortStocks(enriched), Len(req[r].gainers),
                                                 req[r].alertsSent,
                                                 req[r].niftyChangePercent)]
    /\ UNCHANGED <<alertedTickers, env, twitterClient, scans, delivered, failed, probe, cacheVars>>

\* One GET at a time: scans that run one after another.
Next ==
    \E r \in {"r1"} :
        \/ StartScan(r)
        \/ FetchDone(r, QuoteVectors, NiftyUps)
        \/ \E i \in 1..Len(NIFTY_200_SYMBOLS) : LookupDone(r, i, Lookups)
        \/ \E i \in 1..Len(NIFTY_200_SYMBOLS) : SendDone(r, i)
        \/ Finish(r)

Spec == Init /\ [][Next]_vars

\* Spec with the scheduling the event loop gives GET: once every callback of
\* gainers.map has returned, the continuation of the outer Promise.all runs.
\* FetchDone, LookupDone and SendDone start with an upstream's answer, and GET
\* and the adapters call fetch, yahoo-finance2, stock-nse-india and twitter-api-v2
\* without a timeout or an abort signal: nothing in the code makes these steps
\* happen, so they get no fairness.
SpecAwait == Spec /\ WF_vars(Finish("r1"))

\* The same with upstreams that always answer.
SpecAnswered == Spec /\ WF_vars(Next)

\* Two GETs that may overlap at their await points, over fewer upstream answers.
InitOverlap == Init /\ env \in EnvsOverlap

NextOverlap ==
    \E r \in Reqs :
        \/ StartScan(r)
        \/ FetchDone(r, QuoteVectorsOverlap, NiftyUpsOverlap)
        \/ \E i \in 1..Len(NIFTY_200_SYMBOLS) : LookupDone(r, i, LookupsOverlap)
        \/ \E i \in 1..Len(NIFTY_200_SYMBOLS) : SendDone(r, i)
        \/ Finish(r)

SpecOverlap == InitOverlap /\ [][NextOverlap]_vars

\* ------------------------------------------------- one adapter call alone
\* probe = [adapter, done, input, result, upstreamCalls]: an adapter, what its
\* upstream answers, and, once called, how the call ended and how many calls of
\* the upstream it made.

Pending == [threw |-> FALSE, value |-> "pending"]

Fetched == {"network_error", "http_error", "bad_json"}

RedditAnswers ==
    {[kind |-> k] : k \in Fetched}
    \cup {[kind |-> "json", shape |-> sh] :
            sh \in {"null", "no_data", "no_children", "children_scalar"}}
    \cup {RedditQuiet, RedditChatter, RedditBroken,
          [kind |-> "json", shape |-> "listing", children |-> <<>>]}

TelegramAnswers ==
    {[kind |-> k] : k \in Fetched}
    \cup {[kind |-> "json", shape |-> sh] : sh \in {"null", "not_ok", "result_scalar"}}
    \cup {TelegramQuiet, TelegramChatter,
          [kind |-> "json", shape |-> "updates", result |-> <<[hasText |-> FALSE]>>]}

TwitterAnswers == {[kind |-> "error"], TwitterQuiet, TwitterChatter}

DeliveryAnswers ==
    {[kind |-> "error"], [kind |-> "no_dp"], DeliveryLow, DeliveryHigh,
     [kind |-> "dp", deliveryQuantity |-> 0, quantityTraded |-> 0],
     [kind |-> "dp", deliveryQuantity |-> 5, quantityTraded |-> 0],
     [kind |-> "dp", deliveryQuantity |-> 1, quantityTraded |-> 3]}

PivotAnswers ==
    {PivotDown, PivotBars,
     [kind |-> "bars", quotes |-> <<>>],
     [kind |-> "bars", quotes |-> <<[high |-> 115, low |-> 100, close |-> 110],
                                    [high |-> 121, low |-> 110, close |-> 121]>>],
     [kind |-> "bars", quotes |-> <<[high |-> 110, low |-> 90, close |-> 100]>>],
     [kind |-> "bars", quotes |-> <<[high |-> 110, low |-> 0, close |-> 100],
                                    [high |-> 121, low |-> 100, close |-> 121]>>]}

NiftyAnswers ==
    NiftyUps \cup {[kind |-> "quote", hasChange |-> FALSE, changePercent |-> 0],
                   [kind |-> "quote", hasChange |-> TRUE, changePercent |-> -1250]}

\* _client with TWITTER_BEARER_TOKEN: a client has been made of a token only.
TwitterClients ==
    {<<"none", "unset">>, <<"none", "placeholder">>, <<"none", "real">>,
     <<"client", "real">>}

ProbeOf(adapter, input) ==
    [adapter |-> adapter, done |-> FALSE, input |-> input, result |-> Pending,
     upstreamCalls |-> 0]

ProbeInputs ==
    {ProbeOf("twitter", [client |-> ck[1], token |-> ck[2], ticker |-> t, up |-> u]) :
        ck \in TwitterClients, t \in Tickers, u \in TwitterAnswers}
    \cup {ProbeOf("reddit", [ticker |-> t, up |-> u]) :
            t \in Tickers, u \in RedditAnswers}
    \cup {ProbeOf("telegram", [token |-> k, ticker |-> t, up |-> u]) :
            k \in {"unset", "placeholder", "real"}, t \in Tickers, u \in TelegramAnswers}
    \cup {ProbeOf("delivery", [up |-> u]) : u \in DeliveryAnswers}
    \cup {ProbeOf("pivots", [price |-> p, up |-> u]) : p \in {110, 121}, u \in PivotAnswers}
    \cup {ProbeOf("nifty", [up |-> u]) : u \in NiftyAnswers}

InitAdapters ==
    /\ alertedTickers = {}
    /\ env \in {e \in Envs : e.twilioSid = "real" /\ e.twilioTo = "real"}
    /\ twitterClient = "none"
    /\ req = [r \in Reqs |-> IdleReq]
    /\ scans = 0
    /\ delivered = [t \in Tickers |-> 0]
    /\ failed = {}
    /\ probe \in ProbeInputs
    /\ CachesAtLoad

\* The call of adapter a, ending as `result` after `upstreamCalls` calls of its
\* upstream.
Called(a, result, upstreamCalls) ==
    /\ probe.adapter = a
    /\ ~probe.done
    /\ probe' = [probe EXCEPT !.done = TRUE, !.result = result,
                              !.upstreamCalls = upstreamCalls]
    /\ UNCHANGED <<alertedTickers, env, twitterClient, req, scans, delivered, failed, cacheVars>>

CallTwitter ==
    /\ probe.adapter = "twitter"
    /\ LET client == getClient(probe.input.client, probe.input.token) IN
       Called("twitter", searchTwitterMentions(client, probe.input.up),
              TwitterSearches(client))

CallReddit ==
    /\ probe.adapter = "reddit"
    /\ Called("reddit", searchRedditMentions(probe.input.ticker, fetchPosts(probe.input.up)), 1)

CallTelegram ==
    /\ probe.adapter = "telegram"
    /\ Called("telegram", searchTelegramMentions(probe.input.token, probe.input.ticker,
                                                 probe.input.up),
              TelegramFetches(probe.input.token))

CallDelivery ==
    /\ probe.adapter = "delivery"
    /\ Called("delivery", getDeliveryPercent(probe.input.up).result, 1)

CallPivots ==
    /\ probe.adapter = "pivots"
    /\ Called("pivots", getPivotData(probe.input.price, probe.input.up), 1)

CallNifty ==
    /\ probe.adapter = "nifty"
    /\ Called("nifty", getNiftyChangePercent(probe.input.up), 1)

NextAdapters ==
    \/ CallTwitter
    \/ CallReddit
    \/ CallTelegram
    \/ CallDelivery
    \/ CallPivots
    \/ CallNifty

SpecAdapters == InitAdapters /\ [][NextAdapters]_vars

\* ------------------------------------------- the enrichment of one gainer alone
\* probe = [adapter |-> "enrich", done, input, result]: a gainer, the benchmark and
\* what the five lookups gave; once the callback of gainers.map has run, the
\* stock it built and the four criteria it computed on the way.

\* The most mentions the lookups of one gainer give in these runs (the upstreams
\* allow 10 tweets, 100 posts and 100 updates).
MaxMentions == 30

\* A gainer's price with the answer of yahooFinance.chart for its symbol.
PricedBars ==
    {<<121, PivotBars>>, <<110, PivotBars>>, <<121, PivotDown>>,
     <<10101, PivotEdge>>, <<10100, PivotEdge>>}

EnrichInputs ==
    {[stock |-> [symbol |-> SymA, price |-> pb[1], changePercent |-> cp],
      niftyChangePercent |-> nifty,
      twitterResults |-> tw, redditResults |-> <<>>, telegramResults |-> tg,
      deliveryPercent |-> dp, pv |-> pb[2]] :
        pb \in PricedBars,
        cp \in {4000, 5994, 5996, 6000},
        nifty \in {0, 4000, 4500},
        tw \in {<<>>, <<Mention("twitter", Chatter)>>},
        tg \in {<<>>, <<Mention("telegram", Chatter)>>},
        dp \in {-Pct(1), 0, 20000, 29990, 30000, 45000}}

\* The callback of gainers.map from the lookups' results to the status.
EnrichedOf(in) ==
    LET pivotData == getPivotData(in.stock.price, in.pv).value
        e == Enrichment(in.stock, in.twitterResults, in.redditResults,
                        in.telegramResults, in.deliveryPercent, pivotData,
                        in.niftyChangePercent)
        c == Criteria(e)
    IN [stock |-> e @@ [status |-> Classify(c)], criteria |-> c]

InitEnrich ==
    /\ alertedTickers = {}
    /\ env \in {e \in Envs : e.twilioSid = "real" /\ e.twilioTo = "real"}
    /\ twitterClient = "none"
    /\ req = [r \in Reqs |-> IdleReq]
    /\ scans = 0
    /\ delivered = [t \in Tickers |-> 0]
    /\ failed = {}
    /\ probe \in {ProbeOf("enrich", in) : in \in EnrichInputs}
    /\ CachesAtLoad

\* The callback runs on the lookups' results.
EnrichStock ==
    /\ probe.adapter = "enrich"
    /\ ~probe.done
    /\ probe' = [probe EXCEPT !.done = TRUE, !.result = Returns(EnrichedOf(probe.input))]
    /\ UNCHANGED <<alertedTickers, env, twitterClient, req, scans, delivered, failed, cacheVars>>

\* The callback runs again on the same results but for one more Reddit post that
\* mentions the ticker.
OneMoreMention ==
    /\ probe.adapter = "enrich"
    /\ probe.done
    /\ probe.result.value.stock.totalMentions < MaxMentions
    /\ LET in == [probe.input EXCEPT
                    !.redditResults = Append(@, Mention("reddit", Chatter))]
       IN probe' = [probe EXCEPT !.input = in, !.result = Returns(EnrichedOf(in))]
    /\ UNCHANGED <<alertedTickers, env, twitterClient, req, scans, delivered, failed, cacheVars>>

NextEnrich ==
    \/ EnrichStock
    \/ OneMoreMention

SpecEnrich == InitEnrich /\ [][NextEnrich]_vars

\* ------------------------------------------------- the two caching adapters
\* fetchPosts and getDeliveryPercent with their caches, under a clock.
\* calls[c]: [pc |-> "idle"], [pc |-> "fetching", adapter, ticker] at the await of
\* the upstream, [pc |-> "done", adapter, ticker, hit, value, stored, answer, at]
\* once returned; hit tells that the call returned from its cache check, stored
\* that it wrote what it fetched to its cache, answer what its upstream answered
\* (history).  fetchPosts takes no
\* ticker: its calls carry <<>>.

\* The clock stops after this many minutes.
MaxClock == 4

Minute == 60 * 1000

\* CACHE_TTL_MS of reddit.ts and of delivery.ts
REDDIT_CACHE_TTL_MS == 2 * 60 * 1000
DELIVERY_CACHE_TTL_MS == 3 * 60 * 1000

\* An entry as old as the TTL still counts as fresh.
RedditCacheFresh_UpToTTL(cache, t) ==
    cache.present /\ t - cache.fetchedAt <= REDDIT_CACHE_TTL_MS

\* _cache && Date.now() - _cache.fetchedAt < CACHE_TTL_MS
RedditCacheFresh(cache, t) ==
    cache.present /\ t - cache.fetchedAt < REDDIT_CACHE_TTL_MS

\* cached && Date.now() - cached.fetchedAt < CACHE_TTL_MS
DeliveryCacheFresh(cache, t) ==
    cache.present /\ t - cache.fetchedAt < DELIVERY_CACHE_TTL_MS

\* What the upstreams answer in these runs.
CacheRedditAnswers ==
    {RedditQuiet, RedditChatter, [kind |-> "http_error"], [kind |-> "network_error"],
     [kind |-> "json", shape |-> "no_data"]}
CacheDeliveryAnswers ==
    {DeliveryLow, DeliveryHigh, DeliveryDown, [kind |-> "no_dp"],
     [kind |-> "dp", deliveryQuantity |-> 5, quantityTraded |-> 0]}

\* A call that returned from its cache check asked no upstream.
NoAnswer == [kind |-> "none"]

Fetching(adapter, ticker) == [pc |-> "fetching", adapter |-> adapter, ticker |-> ticker]

\* at: the time of the call's cache check when it hit, of its return when it fetched.
Done(adapter, ticker, hit, value, stored, answer) ==
    [pc |-> "done", adapter |-> adapter, ticker |-> ticker, hit |-> hit, value |-> value,
     stored |-> stored, answer |-> answer, at |-> now]

InitCache ==
    /\ alertedTickers = {}
    /\ env \in {e \in Envs : e.twilioSid = "real" /\ e.twilioTo = "real"}
    /\ twitterClient = "none"
    /\ req = [r \in Reqs |-> IdleReq]
    /\ scans = 0
    /\ delivered = [t \in Tickers |-> 0]
    /\ failed = {}
    /\ probe = NoProbe
    /\ CachesAtLoad

\* A minute passes.
Tick ==
    /\ now < MaxClock * Minute
    /\ now' = now + Minute
    /\ UNCHANGED <<alertedTickers, env, twitterClient, req, scans, delivered, failed,
                   probe, redditCache, deliveryCache, calls>>

\* fetchPosts is called: it returns the cached posts, or runs to its await fetch.
FetchPostsCalled(c) ==
    /\ calls[c].pc # "fetching"
    /\ calls' = [calls EXCEPT ![c] =
            IF RedditCacheFresh(redditCache, now)
            THEN Done("reddit", <<>>, TRUE, redditCache.posts, FALSE, NoAnswer)
            ELSE Fetching("reddit", <<>>)]
    /\ UNCHANGED <<alertedTickers, env, twitterClient, req, scans, delivered, failed,
                   probe, now, redditCache, deliveryCache>>

\* The fetch of fetchPosts settles: the rest of fetchPosts.
FetchPostsSettled(c) ==
    /\ calls[c] = Fetching("reddit", <<>>)
    /\ \E up \in CacheRedditAnswers :
        LET fetched == fetchPosts(up) IN
        /\ redditCache' = IF fetched.store
                          THEN [present |-> TRUE, posts |-> fetched.posts, fetchedAt |-> now]
                          ELSE redditCache
        /\ calls' = [calls EXCEPT ![c] = Done("reddit", <<>>, FALSE, fetched.posts, fetched.store, up)]
    /\ UNCHANGED <<alertedTickers, env, twitterClient, req, scans, delivered, failed,
                   probe, now, deliveryCache>>

\* getDeliveryPercent(ticker) is called: it returns the cached value, or runs to
\* its await getEquityTradeInfo.
DeliveryCalled(c, ticker) ==
    /\ calls[c].pc # "fetching"
    /\ calls' = [calls EXCEPT ![c] =
            IF DeliveryCacheFresh(deliveryCache[ticker], now)
            THEN Done("delivery", ticker, TRUE, deliveryCache[ticker].value, FALSE,
                      NoAnswer)
            ELSE Fetching("delivery", ticker)]
    /\ UNCHANGED <<alertedTickers, env, twitterClient, req, scans, delivered, failed,
                   probe, now, redditCache, deliveryCache>>

\* getEquityTradeInfo settles: the rest of getDeliveryPercent.
DeliverySettled(c) ==
    /\ calls[c].pc = "fetching"
    /\ calls[c].adapter = "delivery"
    /\ \E up \in CacheDeliveryAnswers :
        LET ticker == calls[c].ticker
            got == getDeliveryPercent(up)
        IN /\ deliveryCache' =
                 IF got.store
                 THEN [deliveryCache EXCEPT ![ticker] =
                          [present |-> TRUE, value |-> got.result.value, fetchedAt |-> now]]
                 ELSE deliveryCache
           /\ calls' = [calls EXCEPT ![c] = Done("delivery", ticker, FALSE, got.result.value, got.store,
                                               up)]
    /\ UNCHANGED <<alertedTickers, env, twitterClient, req, scans, delivered, failed,
                   probe, now, redditCache>>

\* One call at a time.
NextCache ==
    \/ Tick
    \/ \E c \in {"c1"} :
          \/ FetchPostsCalled(c)
          \/ FetchPostsSettled(c)
          \/ \E ticker \in Tickers : DeliveryCalled(c, ticker)
          \/ DeliverySettled(c)

SpecCache == InitCache /\ [][NextCache]_vars

\* The movers of one scan: every callback of gainers.map reaches its
\* searchRedditMentions, and so the cache check of fetchPosts, before any fetch
\* of an earlier callback has settled.  Two calls of fetchPosts in flight.
NextCacheOverlap ==
    \/ Tick
    \/ \E c \in Calls :
          \/ FetchPostsCalled(c)
          \/ FetchPostsSettled(c)

SpecCacheOverlap == InitCache /\ [][NextCacheOverlap]_vars

\* ------------------------------------------------- the mention matchers alone
\* searchRedditMentions and searchTelegramMentions on one post or message each,
\* for the ticker TCS.

\* The longest text, in characters, of the texts taken from MatcherAlphabet.
MaxTextLen == 5

TCS == <<"T", "C", "S">>

\* Letters of the ticker in either case, a delimiter that may only precede ("$"),
\* one that may only follow ("."), one that may do both, and a letter of a
\* longer word.
MatcherAlphabet == {"T", "c", "S", "$", ".", " ", "x"}

ILikeTCSToday ==
    <<"I", " ", "l", "i", "k", "e", " ", "$", "T", "C", "S", " ", "t", "o", "d", "a", "y">>
PETROLTCS == <<"P", "E", "T", "R", "O", "L", "T", "C", "S">>

MatcherTexts ==
    UNION {[1..n -> MatcherAlphabet] : n \in 0..MaxTextLen}
    \cup {ILikeTCSToday, PETROLTCS, <<"#", "t", "c", "s", "]">>, <<"(", "T", "C", "S", ")">>,
          <<"T", "C", "S", "\n", "T">>, <<"T", "C", "S", "-", "x">>}

MatcherRedditInputs ==
    {ProbeOf("reddit",
             [ticker |-> TCS,
              up |-> [kind |-> "json", shape |-> "listing",
                      children |-> <<[hasData |-> TRUE, title |-> text,
                                      selftext |-> <<>>]>>]]) :
        text \in MatcherTexts}

\* A message with an empty text is skipped before the matcher.
MatcherTelegramInputs ==
    {ProbeOf("telegram",
             [token |-> "real", ticker |-> TCS,
              up |-> [kind |-> "json", shape |-> "updates",
                      result |-> <<[hasText |-> TRUE, text |-> text]>>]]) :
        text \in MatcherTexts \ {<<>>}}

InitMatcher ==
    /\ alertedTickers = {}
    /\ env \in {e \in Envs : e.twilioSid = "real" /\ e.twilioTo = "real"}
    /\ twitterClient = "none"
    /\ req = [r \in Reqs |-> IdleReq]
    /\ scans = 0
    /\ delivered = [t \in Tickers |-> 0]
    /\ failed = {}
    /\ probe = NoProbe
    /\ CachesAtLoad

\* searchRedditMentions or searchTelegramMentions is called for TCS, with the
\* answer its upstream is about to give.
MatcherCalled ==
    /\ probe = NoProbe
    /\ probe' \in MatcherRedditInputs \/ probe' \in MatcherTelegramInputs
    /\ UNCHANGED <<alertedTickers, env, twitterClient, req, scans, delivered, failed,
                   cacheVars>>

NextMatcher ==
    \/ MatcherCalled
    \/ CallReddit
    \/ CallTelegram

SpecMatcher == InitMatcher /\ [][NextMatcher]_vars

\* ------------------------------------------------------------------ claims

\* The callbacks of slot r that have classified their gainer.
Classified(r) == {i \in DOMAIN req[r].pipes : req[r].pipes[i].pc \in {"sending", "done"}}

StockOf(r, i) == req[r].pipes[i].stock
TickerOf(r, i) == tickerFromSymbol(req[r].pipes[i].stock.symbol)

CriteriaNames == {"passesDelivery", "passesR2", "passesSector", "passesMentions"}

\* How many of the four criteria of stock st are true.
TrueCriteria(st) == Cardinality({k \in CriteriaNames : Criteria(st)[k]})

C2_NoSecondNotification ==
    \A r \in Reqs : \A i \in Classified(r) :
        (TickerOf(r, i) \in req[r].known /\ StockOf(r, i).status = "alert")
            => /\ req[r].pipes[i].calls = 0
               /\ req[r].pipes[i].pc = "done"
               /\ ~StockOf(r, i).alertSent

C2_Witness ==
    \E r \in Reqs : \E i \in Classified(r) :
        /\ TickerOf(r, i) \in req[r].known
        /\ StockOf(r, i).status = "alert"
        /\ req[r].pc = "returned"
        /\ req[r].response.hasError = FALSE

\* C3: no ticker has more than one successfully sent notification, whatever the
\* interleaving of the scans.
C3_AtMostOneNotification == \A t \in Tickers : delivered[t] <= 1

\* The callback of gainer i in slot r resumes from await sendWhatsAppAlert in this step.
SendReturns(r, i) ==
    /\ i \in DOMAIN req[r].pipes
    /\ req[r].pipes[i].pc = "sending"
    /\ req'[r].pipes[i].pc = "done"

\* The callback of gainer i in slot r classifies its gainer in this step.
Classifies(r, i) ==
    /\ i \in DOMAIN req[r].pipes
    /\ req[r].pipes[i].pc = "lookup"
    /\ req'[r].pipes[i].pc \in {"sending", "done"}

\* C4: a sendWhatsAppAlert call that returns false (a failed transport, missing or
\* placeholder credentials) adds nothing to the alerted set and leaves alertSent
\* false and the counter alone; and a stock classified "alert" whose ticker is
\* not in the alerted set is dispatched (again).
C4_FailedDispatchStaysEligible ==
    [][\A r \in Reqs : \A i \in 1..Len(NIFTY_200_SYMBOLS) :
        /\ (SendReturns(r, i) /\ delivered' = delivered)
              => /\ alertedTickers' = alertedTickers
                 /\ ~req'[r].pipes[i].stock.alertSent
                 /\ req'[r].alertsSent = req[r].alertsSent
        /\ (/\ Classifies(r, i)
            /\ req'[r].pipes[i].stock.status = "alert"
            /\ TickerOf(r, i) \notin alertedTickers)
              => /\ req'[r].pipes[i].pc = "sending"
                 /\ req'[r].pipes[i].calls = 1]_vars

\* A dispatch of ticker t failed earlier, no dispatch of t has succeeded, and a
\* scan is dispatching t again.
C4_Witness ==
    \E r \in Reqs : \E i \in DOMAIN req[r].pipes :
        /\ req[r].pipes[i].pc = "sending"
        /\ TickerOf(r, i) \in failed
        /\ delivered[TickerOf(r, i)] = 0

\* C5: the alerted set is empty at process start; it always holds exactly the
\* tickers some sendWhatsAppAlert call returned true for; no step removes an
\* entry, and only a step in which a send returns true adds one.
C5_AlertedSetLifecycle ==
    /\ alertedTickers = {}
    /\ [](alertedTickers = {t \in Tickers : delivered[t] > 0})
    /\ [][/\ alertedTickers \subseteq alertedTickers'
          /\ \A t \in alertedTickers' \ alertedTickers :
                /\ delivered'[t] = delivered[t] + 1
                /\ \E r \in Reqs : \E i \in 1..Len(NIFTY_200_SYMBOLS) :
                      SendReturns(r, i) /\ TickerOf(r, i) = t]_vars

\* Successful sends have put both tickers in the alerted set, after a send that
\* failed.
C5_Witness ==
    /\ alertedTickers = Tickers
    /\ failed # {}

\* C6: sendWhatsAppAlert is called by the callback of a gainer exactly when it
\* classifies the gainer "alert" and the ticker is not in the alerted set: once
\* then, never for "watch" or "filtered", and no call is added later in the scan.
C6_TransportOnlyForAlert ==
    [][\A r \in Reqs : \A i \in 1..Len(NIFTY_200_SYMBOLS) :
        /\ Classifies(r, i)
              => req'[r].pipes[i].calls =
                    IF req'[r].pipes[i].stock.status = "alert"
                       /\ TickerOf(r, i) \notin alertedTickers
                    THEN 1 ELSE 0
        /\ (i \in Classified(r) /\ i \in DOMAIN req'[r].pipes
            /\ req'[r].pipes[i].pc \in {"sending", "done"})
              => req'[r].pipes[i].calls = req[r].pipes[i].calls]_vars

\* One scan holds an "alert" stock with its one call, finished, next to a stock
\* that is not an alert, with none.
C6_Witness ==
    \E r \in Reqs : \E i, j \in Classified(r) :
        /\ StockOf(r, i).status = "alert" /\ req[r].pipes[i].calls = 1
        /\ req[r].pipes[i].pc = "done"
        /\ StockOf(r, j).status # "alert" /\ req[r].pipes[j].calls = 0

\* C8: a scan in which a step threw has answered, with the error report: no
\* stocks, totalScanned = 0, alertsSent = 0, niftyChangePercent = 0 and the
\* error's message in the error field.
C8_ErrorReportOnThrow ==
    \A r \in Reqs :
        (\E i \in DOMAIN req[r].pipes : req[r].pipes[i].pc = "threw")
            => /\ req[r].pc = "returned"
               /\ req[r].response.kind = "report"
               /\ req[r].response.stocks = <<>>
               /\ req[r].response.totalScanned = 0
               /\ req[r].response.alertsSent = 0
               /\ req[r].response.niftyChangePercent = 0
               /\ req[r].response.hasError
               /\ req[r].response.error = "TypeError"

\* A lookup threw in a scan that had fetched a benchmark other than 0 and sent
\* an alert: the error report still shows zeros.
C8_Witness ==
    \E r \in Reqs :
        /\ \E i \in DOMAIN req[r].pipes : req[r].pipes[i].pc = "threw"
        /\ req[r].alertsSent = 1
        /\ req[r].niftyChangePercent # 0
        /\ req[r].response.hasError

\* C9: when the fetch gives no gainer, GET returns at once: a report without
\* stocks, totalScanned = 0, alertsSent = 0, the fetched benchmark and no error;
\* no adapter and no transport is called and the module state is left alone.
C9_NoGainersShortCircuit ==
    [][\A r \in Reqs :
        (req[r].pc = "fetch" /\ req'[r].pc # "fetch" /\ Len(req'[r].gainers) = 0)
            => /\ req'[r].pc = "returned"
               /\ req'[r].response.kind = "report"
               /\ req'[r].response.stocks = <<>>
               /\ req'[r].response.totalScanned = 0
               /\ req'[r].response.alertsSent = 0
               /\ req'[r].response.niftyChangePercent = req'[r].niftyChangePercent
               /\ ~req'[r].response.hasError
               /\ req'[r].adapterCalls = 0
               /\ req'[r].pipes = <<>>
               /\ alertedTickers' = alertedTickers
               /\ twitterClient' = twitterClient
               /\ delivered' = delivered /\ failed' = failed]_vars

\* A scan without gainers has returned the benchmark 4.5 while the alerted set
\* holds a ticker.
C9_Witness ==
    \E r \in Reqs :
        /\ req[r].pc = "returned"
        /\ req[r].gainers = <<>>
        /\ req[r].response.niftyChangePercent = 4500
        /\ ~req[r].response.hasError
        /\ alertedTickers # {}

PriorityOf == [alert |-> 0, watch |-> 1, filtered |-> 2]

\* C10: in every report, of two adjacent stocks a before b either a's status has
\* the higher priority, or the statuses are equal and a.silenceScore >= b.silenceScore.
C10_ReportOrdered ==
    \A r \in Reqs :
        req[r].response.kind = "report" =>
            LET stocks == req[r].response.stocks IN
            \A k \in 1..(Len(stocks) - 1) :
                \/ PriorityOf[stocks[k].status] < PriorityOf[stocks[k + 1].status]
                \/ /\ PriorityOf[stocks[k].status] = PriorityOf[stocks[k + 1].status]
                   /\ stocks[k].silenceScore >= stocks[k + 1].silenceScore

\* A report of two stocks of one status in which the sort has moved the second
\* gainer, with the higher silence score, to the front.
C10_Witness ==
    \E r \in Reqs :
        /\ req[r].response.kind = "report"
        /\ Len(req[r].response.stocks) = 2
        /\ req[r].response.stocks[1].status = req[r].response.stocks[2].status
        /\ req[r].response.stocks[1].silenceScore > req[r].response.stocks[2].silenceScore
        /\ req[r].response.stocks[1].symbol = req[r].gainers[2].symbol

\* The upstream of the probed call failed: a transport failure, a non-OK status,
\* a malformed or incomplete payload, or missing configuration.
UpstreamFailed ==
    LET in == probe.input IN
    CASE probe.adapter = "twitter" ->
            \/ getClient(in.client, in.token) = "none"
            \/ in.up.kind = "error"
            \/ ~in.up.hasData
      [] probe.adapter = "reddit" ->
            \/ in.up.kind # "json"
            \/ in.up.shape # "listing"
            \/ \E k \in DOMAIN in.up.children : ~in.up.children[k].hasData
      [] probe.adapter = "telegram" ->
            in.token # "real" \/ in.up.kind # "json" \/ in.up.shape # "updates"
      [] probe.adapter = "delivery" ->
            in.up.kind # "dp" \/ in.up.quantityTraded = 0
      [] probe.adapter = "pivots" ->
            \/ in.up.kind # "bars"
            \/ Len(in.up.quotes) < 2
            \/ LET bar == in.up.quotes[Len(in.up.quotes) - 1] IN
               0 \in {bar.high, bar.low, bar.close}
      [] probe.adapter = "nifty" ->
            in.up.kind # "quote" \/ ~in.up.hasChange
      [] OTHER -> FALSE

\* The probed call returned its adapter's neutral value.
ReturnedNeutral ==
    /\ ~probe.result.threw
    /\ CASE probe.adapter \in {"twitter", "reddit", "telegram"} -> probe.result.value = <<>>
         [] probe.adapter = "delivery" -> probe.result.value = -Pct(1)
         [] probe.adapter = "pivots" -> probe.result.value.isNull
         [] probe.adapter = "nifty" -> probe.result.value = 0
         [] OTHER -> FALSE

\* C7: every adapter call ends in a value, never in an exception that reaches
\* the orchestrator, and in the adapter's neutral value when its upstream failed.
C7_AdaptersNeverThrow ==
    probe.done => /\ ~probe.result.threw
                  /\ UpstreamFailed => ReturnedNeutral

\* The callback of gainers.map has run on the probed lookups' results.
EnrichRan == probe.adapter = "enrich" /\ probe.done

EnrichedStock == probe.result.value.stock
EnrichedCriteria == probe.result.value.criteria

\* C11: passesSector is true exactly when the gainer's change% minus the
\* benchmark's change% is at least 2 percentage points, for every pair of the
\* two (differences just below 2, such as 1.996, included).
C11_SectorIffDifferenceAtLeastTwo ==
    EnrichRan =>
        (EnrichedCriteria.passesSector
            <=> probe.input.stock.changePercent - probe.input.niftyChangePercent >= Pct(2))

\* yahooFinance.chart gave daily bars whose second-to-last has high, low and close.
PivotAvailable(pv) ==
    /\ pv.kind = "bars"
    /\ Len(pv.quotes) >= 2
    /\ LET bar == pv.quotes[Len(pv.quotes) - 1] IN 0 \notin {bar.high, bar.low, bar.close}

\* C12, as stated: passesR2 equals nearR2, and nearR2 is true exactly when the
\* reported r2Proximity is <= 1.0 (stocks without pivot data and stocks just above
\* 1.0 included).
C12_NearR2IffReportedProximity ==
    EnrichRan =>
        /\ EnrichedCriteria.passesR2 = EnrichedStock.nearR2
        /\ EnrichedStock.nearR2 <=> EnrichedStock.r2Proximity <= Pct(1)

\* C12, amended: passesR2 equals nearR2, and nearR2 is true exactly when pivot
\* data is available and the proximity before rounding, |price - R2| / R2 * 100
\* with 3 R2 = 4 high - 2 low + close, is <= 1.0; a near stock reports an
\* r2Proximity between 0 and 1.0, but a reported -1 (no pivot data) or 1.00
\* (rounded down from just above) goes with nearR2 = false.
C12_NearR2IffExactProximity ==
    EnrichRan =>
        LET pv == probe.input.pv
            bar == pv.quotes[Len(pv.quotes) - 1]
            r2x3 == 4 * bar.high - 2 * bar.low + bar.close
        IN /\ EnrichedCriteria.passesR2 = EnrichedStock.nearR2
           /\ EnrichedStock.nearR2 <=>
                 /\ PivotAvailable(pv)
                 /\ 100 * Abs(3 * probe.input.stock.price - r2x3) <= r2x3
           /\ EnrichedStock.nearR2 =>
                 (0 <= EnrichedStock.r2Proximity /\ EnrichedStock.r2Proximity <= Pct(1))
           /\ ~PivotAvailable(pv) => EnrichedStock.r2Proximity = -Pct(1)

\* A stock 1.0033% from R2: it reports r2Proximity 1.00 and is not near R2.
C12_Witness ==
    /\ EnrichRan
    /\ probe.input.pv = PivotEdge
    /\ probe.input.stock.price = 10101
    /\ EnrichedStock.r2Proximity = Pct(1)
    /\ ~EnrichedStock.nearR2
    /\ ~EnrichedCriteria.passesR2

\* C13: passesDelivery is true exactly when 0 <= deliveryPercent < 30 (so -1 and
\* 30 fail), passesMentions exactly when there is no mention at all, and no stock
\* with deliveryPercent = -1 or with a mention has status "alert".
C13_DeliveryAndMentionsCriteria ==
    EnrichRan =>
        LET dp == probe.input.deliveryPercent
            n == Len(probe.input.twitterResults) + Len(probe.input.redditResults)
                 + Len(probe.input.telegramResults)
        IN /\ EnrichedCriteria.passesDelivery <=> (0 <= dp /\ dp < Pct(30))
           /\ EnrichedCriteria.passesMentions <=> n = 0
           /\ (dp = -Pct(1) \/ n >= 1) => EnrichedStock.status # "alert"

\* A stock without delivery data whose other three criteria hold: it is a
\* "watch", not an "alert".
C13_Witness ==
    /\ EnrichRan
    /\ probe.input.deliveryPercent = -Pct(1)
    /\ ~EnrichedCriteria.passesDelivery
    /\ EnrichedCriteria.passesR2
    /\ EnrichedCriteria.passesSector
    /\ EnrichedCriteria.passesMentions
    /\ EnrichedStock.status = "watch"

\* The callback runs again in this step, on one more mention of the same gainer.
MentionAdded ==
    /\ EnrichRan
    /\ probe'.done
    /\ probe'.input.stock = probe.input.stock
    /\ probe'.result.value.stock.totalMentions = EnrichedStock.totalMentions + 1

\* C14, as stated: the silence score is defined for every totalMentions >= 0,
\* and for a fixed positive changePercent it strictly decreases each time
\* totalMentions increases by one.
C14_ScoreStrictlyDecreases ==
    [][(MentionAdded /\ probe.input.stock.changePercent > 0)
          => probe'.result.value.stock.silenceScore < EnrichedStock.silenceScore]_vars

\* C14, amended: the denominator 1 + totalMentions is at least 1 and the silence
\* score is the hundredth nearest to changePercent / (1 + totalMentions); for a
\* fixed positive changePercent it never increases when totalMentions increases
\* by one (it may stay equal: round2 gives 0.14 for 4 / 28 and for 4 / 29).
C14_ScoreNeverIncreases ==
    /\ [](EnrichRan =>
            LET m == EnrichedStock.totalMentions
                score == EnrichedStock.silenceScore
            IN /\ 1 + m >= 1
               /\ score % 10 = 0
               /\ 2 * Abs(score * (1 + m) - probe.input.stock.changePercent) <= 10 * (1 + m))
    /\ [][(MentionAdded /\ probe.input.stock.changePercent > 0)
          => probe'.result.value.stock.silenceScore <= EnrichedStock.silenceScore]_vars

\* A gainer of 4% with 28 mentions: its score 0.14 is the score it had with 27.
C14_Witness ==
    /\ EnrichRan
    /\ probe.input.stock.changePercent = 4000
    /\ EnrichedStock.totalMentions = 28
    /\ EnrichedStock.silenceScore = 140
    /\ SilenceScore(4000, 27) = 140

\* C15: totalMentions = twitterMentions + redditMentions + telegramMentions, each
\* platform count is the length of that adapter's result list, and the mentions
\* list has totalMentions entries.
C15_MentionCountsAddUp ==
    EnrichRan =>
        /\ EnrichedStock.twitterMentions = Len(probe.input.twitterResults)
        /\ EnrichedStock.redditMentions = Len(probe.input.redditResults)
        /\ EnrichedStock.telegramMentions = Len(probe.input.telegramResults)
        /\ EnrichedStock.totalMentions =
              EnrichedStock.twitterMentions + EnrichedStock.redditMentions
              + EnrichedStock.telegramMentions
        /\ Len(EnrichedStock.mentions) = EnrichedStock.totalMentions

\* A stock with mentions on all three platforms.
C15_Witness ==
    /\ EnrichRan
    /\ EnrichedStock.twitterMentions = 1
    /\ EnrichedStock.redditMentions = 2
    /\ EnrichedStock.telegramMentions = 1
    /\ EnrichedStock.totalMentions = 4

\* v, in thousandths, is the hundredth nearest to num / den.
NearestHundredth(v, num, den) ==
    /\ v % 10 = 0
    /\ 2 * Abs(v * den - Pct(num)) <= 10 * den

\* C16: getPivotData computes pivot = (high + low + close) / 3, r1 = 2 pivot - low,
\* r2 = pivot + (high - low) and r2Proximity = |price - r2| / r2 * 100 from the
\* second-to-last daily bar, each reported to two decimals; for high 110, low 90,
\* close 100 it gives pivot 100, r1 110, r2 120, with price 121 r2Proximity 0.83
\* and nearR2 true, with price 110 r2Proximity 8.33 and nearR2 false.
C16_PivotFormulas ==
    (probe.adapter = "pivots" /\ probe.done /\ PivotAvailable(probe.input.up)) =>
        LET quotes == probe.input.up.quotes
            bar == quotes[Len(quotes) - 1]
            price == probe.input.price
            \* three times pivot, r1 and r2
            p3 == bar.high + bar.low + bar.close
            r1x3 == 2 * p3 - 3 * bar.low
            r2x3 == p3 + 3 * (bar.high - bar.low)
            v == probe.result.value
        IN /\ ~probe.result.threw
           /\ ~v.isNull
           /\ NearestHundredth(v.pivot, p3, 3)
           /\ NearestHundredth(v.r1, r1x3, 3)
           /\ NearestHundredth(v.r2, r2x3, 3)
           /\ NearestHundredth(v.r2Proximity, 100 * Abs(3 * price - r2x3), r2x3)
           /\ v.nearR2 <=> 100 * Abs(3 * price - r2x3) <= r2x3
           /\ bar = [high |-> 110, low |-> 90, close |-> 100] =>
                 /\ v.pivot = Pct(100) /\ v.r1 = Pct(110) /\ v.r2 = Pct(120)
                 /\ price = 121 => (v.r2Proximity = 830 /\ v.nearR2)
                 /\ price = 110 => (v.r2Proximity = 8330 /\ ~v.nearR2)

\* getPivotData has answered for the price 121 on the bars whose second-to-last
\* is high 110, low 90, close 100 and whose last bar differs.
C16_Witness ==
    /\ probe.adapter = "pivots"
    /\ probe.done
    /\ probe.input.up = PivotBars
    /\ probe.input.price = 121
    /\ probe.result.value.r2 = Pct(120)
    /\ probe.result.value.r2Proximity = 830
    /\ probe.result.value.nearR2

\* The quote of watchlist symbol k in slot r came back with a change% of at least 4.
Qualifies(r, k) ==
    /\ req[r].quotes[k].kind = "quote"
    /\ req[r].quotes[k].hasChange
    /\ req[r].quotes[k].changePercent >= Pct(4)

\* C17: the gainers of a scan are exactly the quotes with a change% of at least
\* 4, in descending order of change%; a symbol whose quote failed or has no
\* change% is left out and does not fail the scan; every stock of every report
\* has changePercent >= 4.
C17_GainersFilteredSorted ==
    \A r \in Reqs :
        req[r].quotes # <<>> =>
            LET gainers == req[r].gainers
                quotes == req[r].quotes
            IN /\ \A g \in DOMAIN gainers : gainers[g].changePercent >= Pct(4)
               /\ \A g \in 1..(Len(gainers) - 1) :
                     gainers[g].changePercent >= gainers[g + 1].changePercent
               /\ Len(gainers) = Cardinality({k \in DOMAIN quotes : Qualifies(r, k)})
               /\ \A k \in DOMAIN quotes :
                     Qualifies(r, k) <=>
                        \E g \in DOMAIN gainers :
                            /\ quotes[k].kind = "quote"
                            /\ gainers[g].symbol = quotes[k].symbol
                            /\ gainers[g].price = quotes[k].price
                            /\ gainers[g].changePercent = quotes[k].changePercent
               /\ req[r].response.kind = "report" =>
                     /\ \A k \in DOMAIN req[r].response.stocks :
                           req[r].response.stocks[k].changePercent >= Pct(4)
                     /\ req[r].response.hasError =>
                           \E i \in DOMAIN req[r].pipes : req[r].pipes[i].pc = "threw"

\* The quote of the first symbol failed and the second symbol gained 8%: the
\* scan has reported that one stock.
C17_Witness ==
    \E r \in Reqs :
        /\ req[r].quotes # <<>>
        /\ req[r].quotes[1].kind = "error"
        /\ req[r].response.kind = "report"
        /\ ~req[r].response.hasError
        /\ Len(req[r].response.stocks) = 1
        /\ req[r].response.stocks[1].symbol = SymB
        /\ req[r].response.stocks[1].changePercent = 8000

\* Call c returns in this step, from its cache check.
ServedFromCache(c) ==
    /\ calls'[c] # calls[c]
    /\ calls'[c].pc = "done"
    /\ calls'[c].hit

\* Call c starts in this step.
CallStarts(c) ==
    /\ calls'[c] # calls[c]
    /\ calls[c].pc # "fetching"

\* C18: a call of fetchPosts or getDeliveryPercent that answers from its cache,
\* without an upstream fetch, returns the entry the cache holds, and that entry
\* was stored less than the TTL before (2 minutes for Reddit, 3 for delivery); a
\* call that finds an entry as old as the TTL or older goes to its fetch.  An
\* entry's fetchedAt is the time it was stored.
C18_CacheHitWithinTTL ==
    /\ [](/\ redditCache.present => redditCache.fetchedAt <= now
          /\ \A t \in Tickers :
                deliveryCache[t].present => deliveryCache[t].fetchedAt <= now)
    /\ [][/\ redditCache' # redditCache => redditCache'.fetchedAt = now
          /\ \A t \in Tickers :
                deliveryCache'[t] # deliveryCache[t] => deliveryCache'[t].fetchedAt = now
          /\ \A c \in Calls :
                /\ (ServedFromCache(c) /\ calls'[c].adapter = "reddit") =>
                      /\ CallStarts(c)
                      /\ redditCache.present
                      /\ calls'[c].value = redditCache.posts
                      /\ now - redditCache.fetchedAt < 2 * Minute
                /\ (ServedFromCache(c) /\ calls'[c].adapter = "delivery") =>
                      LET entry == deliveryCache[calls'[c].ticker] IN
                      /\ CallStarts(c)
                      /\ entry.present
                      /\ calls'[c].value = entry.value
                      /\ now - entry.fetchedAt < 3 * Minute
                /\ (/\ CallStarts(c)
                    /\ calls'[c].adapter = "reddit"
                    /\ redditCache.present
                    /\ now - redditCache.fetchedAt >= 2 * Minute) =>
                      calls'[c].pc = "fetching"
                /\ (/\ CallStarts(c)
                    /\ calls'[c].adapter = "delivery"
                    /\ deliveryCache[calls'[c].ticker].present
                    /\ now - deliveryCache[calls'[c].ticker].fetchedAt >= 3 * Minute) =>
                      calls'[c].pc = "fetching"]_vars

\* getDeliveryPercent has answered from an entry stored two minutes before, the
\* oldest it serves, while the Reddit entry, as old, has run out.
C18_Witness ==
    \E c \in Calls :
        /\ calls[c].pc = "done"
        /\ calls[c].adapter = "delivery"
        /\ calls[c].hit
        /\ deliveryCache[calls[c].ticker].present
        /\ calls[c].at = deliveryCache[calls[c].ticker].fetchedAt + 2 * Minute
        /\ now = calls[c].at
        /\ redditCache.present
        /\ now - redditCache.fetchedAt >= 2 * Minute

\* C19: every scan that has started eventually returns a response, a report or
\* an error report, also when an adapter call or the transport call of the scan
\* never completes.
C19_EveryScanReturns ==
    \A r \in Reqs :
        (req[r].pc \in {"fetch", "enrich"})
            ~> (req[r].pc = "returned" /\ req[r].response.kind = "report")

\* C20: with TWITTER_BEARER_TOKEN (TELEGRAM_BOT_TOKEN) unset or equal to its
\* placeholder, searchTwitterMentions (searchTelegramMentions) returns the empty
\* list for every ticker and makes no call of its upstream.
C20_NoTokenNoCall ==
    (probe.done /\ probe.adapter \in {"twitter", "telegram"}
     /\ probe.input.token \in {"unset", "placeholder"}) =>
        /\ probe.result = [threw |-> FALSE, value |-> <<>>]
        /\ probe.upstreamCalls = 0

\* searchTwitterMentions has run with the placeholder token while the search
\* would have given a tweet.
C20_Witness ==
    /\ probe.done
    /\ probe.adapter = "twitter"
    /\ probe.input.token = "placeholder"
    /\ probe.input.up = TwitterChatter
    /\ probe.result.value = <<>>
    /\ probe.upstreamCalls = 0

\* The lower-case letter of every upper-case letter.
LowerOf ==
    [c \in {UpperCase[k] : k \in 1..26} |-> LowerCase[CHOOSE k \in 1..26 : UpperCase[k] = c]]

\* c in lower case.
Lower(c) == IF c \in DOMAIN LowerOf THEN LowerOf[c] ELSE c

LowerText(text) == [k \in 1..Len(text) |-> Lower(text[k])]

\* The ticker occurs in the text at position p, whatever the case of the letters,
\* after the start of the text, whitespace, "$" or "#" and before whitespace, one
\* of , ; . ! ? ) ] or the end of the text.
TokenAt(ticker, text, p) ==
    LET last == p + Len(ticker) - 1 IN
    /\ last <= Len(text)
    /\ LowerText(SubSeq(text, p, last)) = LowerText(ticker)
    /\ p = 1 \/ text[p - 1] \in {" ", "\t", "\n", "\r", "$", "#"}
    /\ last = Len(text)
       \/ text[last + 1] \in {" ", "\t", "\n", "\r", ",", ";", ".", "!", "?", ")", "]"}

\* The text the probed matcher tests: title and selftext joined by a space for
\* Reddit, the message's text for Telegram.
MatchedText ==
    IF probe.adapter = "reddit"
    THEN probe.input.up.children[1].title \o <<" ">> \o probe.input.up.children[1].selftext
    ELSE probe.input.up.result[1].text

\* C21: the Reddit and the Telegram matcher accept a text for a ticker exactly
\* when the ticker occurs in it case-insensitively, preceded by the start of the
\* text, whitespace, "$" or "#" and followed by whitespace, one of , ; . ! ? ) ]
\* or the end of the text; for TCS, "I like $TCS today" matches and "PETROLTCS"
\* does not.
C21_MatcherAcceptsBoundedToken ==
    (probe.adapter \in {"reddit", "telegram"} /\ probe.done) =>
        LET text == MatchedText
            accepted == ~probe.result.threw /\ Len(probe.result.value) = 1
        IN /\ ~probe.result.threw
           /\ accepted <=> \E p \in 1..Len(text) : TokenAt(probe.input.ticker, text, p)
           /\ probe.input.ticker = TCS =>
                 /\ (probe.adapter = "telegram" /\ text = ILikeTCSToday) => accepted
                 /\ (probe.adapter = "reddit" /\ text = ILikeTCSToday \o <<" ">>) => accepted
                 /\ (probe.adapter = "telegram" /\ text = PETROLTCS) => ~accepted
                 /\ (probe.adapter = "reddit" /\ text = PETROLTCS \o <<" ">>) => ~accepted

\* The Telegram matcher has refused "PETROLTCS" for TCS.
C21_Witness ==
    /\ probe.adapter = "telegram"
    /\ probe.done
    /\ probe.input.ticker = TCS
    /\ probe.input.up.result[1].text = PETROLTCS
    /\ probe.result.value = <<>>

\* C22: within any window of 2 minutes at most one fetch of fetchPosts succeeds
\* (stores its posts): two calls that each fetched and stored did so at least
\* 2 minutes apart, also when the calls were in flight together.
C22_OneSuccessfulFetchPerWindow ==
    \A c, d \in Calls :
        (/\ c # d
         /\ calls[c].pc = "done" /\ calls[d].pc = "done"
         /\ calls[c].stored /\ calls[d].stored
         /\ calls[c].at <= calls[d].at)
        => calls[d].at - calls[c].at >= REDDIT_CACHE_TTL_MS

\* What the callback of gainer i makes of its own inputs alone: the gainer, what
\* its five lookups answered, the benchmark, and the alerted set as it was when
\* the scan started.  asked: whether it calls sendWhatsAppAlert.
RanAlone(r, i) ==
    LET stock == req[r].gainers[i]
        up == req[r].pipes[i].lookup
        ticker == tickerFromSymbol(stock.symbol)
        e == Enrichment(stock,
                        searchTwitterMentions(twitterClient, up.tw).value,
                        searchRedditMentions(ticker, fetchPosts(up.rd)).value,
                        searchTelegramMentions(env.telegramToken, ticker, up.tg).value,
                        getDeliveryPercent(up.dp).result.value,
                        getPivotData(stock.price, up.pv).value,
                        req[r].niftyChangePercent)
        status == Classify(Criteria(e))
    IN [stock |-> e @@ [status |-> status],
        asked |-> status = "alert" /\ ticker \notin req[r].known]

FullReport(r) ==
    /\ req[r].pc = "returned"
    /\ req[r].response.kind = "report"
    /\ ~req[r].response.hasError
    /\ Len(req[r].gainers) > 0

\* The gainers whose callback has returned.
ReturnedCallbacks(r) == {i \in DOMAIN req[r].pipes : req[r].pipes[i].pc = "done"}

\* C23: for given gainers, upstream answers and alerted set at the start of the
\* scan, the order in which the callbacks of the gainers return plays no part.
\* A callback that has returned, whatever the others have done by then, has
\* yielded what its own inputs give; it called sendWhatsAppAlert exactly when its
\* own status is "alert" and its ticker was not alerted at the start, and its
\* alertSent is what that call answered.  The stock list of the report is these
\* stocks, sorted.
C23_ReportIndependentOfCompletionOrder ==
    /\ \A i \in ReturnedCallbacks("r1") :
          /\ StockOf("r1", i) =
                RanAlone("r1", i).stock @@ [alertSent |-> StockOf("r1", i).alertSent]
          /\ RanAlone("r1", i).asked <=> req["r1"].pipes[i].calls = 1
          /\ StockOf("r1", i).alertSent =>
                RanAlone("r1", i).asked /\ sendWhatsAppAlert(env, "ok")
          /\ RanAlone("r1", i).asked /\ ~StockOf("r1", i).alertSent =>
                TickerOf("r1", i) \in failed
    /\ FullReport("r1") =>
          req["r1"].response.stocks =
              SortStocks([i \in DOMAIN req["r1"].gainers |->
                  RanAlone("r1", i).stock @@ [alertSent |-> StockOf("r1", i).alertSent]])

\* The second gainer's callback has returned, its alert sent, while the first
\* gainer's, started before it, still awaits sendWhatsAppAlert: the callbacks
\* return in the opposite order of the gainers.
C23_Witness ==
    /\ req["r1"].pc = "enrich"
    /\ Len(req["r1"].gainers) = 2
    /\ req["r1"].pipes[1].pc = "sending"
    /\ req["r1"].pipes[2].pc = "done"
    /\ StockOf("r1", 2).alertSent

\* The status the four criteria of stock st give, whatever else is known.
StatusOfCriteria(st) ==
    IF TrueCriteria(st) = 4 THEN "alert"
    ELSE IF TrueCriteria(st) >= 2 THEN "watch"
    ELSE "filtered"

\* C24: the status of a classified stock is the one its four criteria give, also
\* when its ticker was alerted in an earlier scan or is in the alerted set now;
\* a stock whose ticker was alerted in an earlier scan has alertSent false, and no
\* alert is on its way for it.
C24_StatusFromCriteriaOnly ==
    \A i \in Classified("r1") :
        /\ StockOf("r1", i).status = StatusOfCriteria(StockOf("r1", i))
        /\ TickerOf("r1", i) \in req["r1"].known =>
              /\ ~StockOf("r1", i).alertSent
              /\ req["r1"].pipes[i].pc = "done"

\* A report in which a ticker alerted in an earlier scan is "alert" again, with
\* alertSent false.
C24_Witness ==
    /\ FullReport("r1")
    /\ \E k \in DOMAIN req["r1"].response.stocks :
          LET st == req["r1"].response.stocks[k] IN
          /\ tickerFromSymbol(st.symbol) \in req["r1"].known
          /\ tickerFromSymbol(st.symbol) \in alertedTickers
          /\ st.status = "alert"
          /\ ~st.alertSent

\* A request whose response is a report without the error field.
NonErrorReport(r) == req[r].response.kind = "report" /\ ~req[r].response.hasError

\* C25: in every report without error, alertsSent is the number of stocks of the
\* report with alertSent true, whatever the interleaving of the callbacks and of
\* overlapping scans; and every stock with alertSent true has status "alert" and
\* its ticker in the alerted set.
C25_AlertsSentCountsDispatched ==
    \A r \in Reqs :
        NonErrorReport(r) =>
            LET stocks == req[r].response.stocks IN
            /\ req[r].response.alertsSent =
                  Cardinality({k \in DOMAIN stocks : stocks[k].alertSent})
            /\ \A k \in DOMAIN stocks :
                  stocks[k].alertSent =>
                      /\ stocks[k].status = "alert"
                      /\ tickerFromSymbol(stocks[k].symbol) \in alertedTickers

\* A report whose counter two callbacks incremented: both stocks dispatched.
C25_Witness ==
    /\ NonErrorReport("r1")
    /\ req["r1"].response.alertsSent = 2
    /\ Len(req["r1"].response.stocks) = 2
    /\ \A k \in DOMAIN req["r1"].response.stocks : req["r1"].response.stocks[k].alertSent

\* The upstream of call c answers in this step and the call returns.
FetchSettles(c) == calls[c].pc = "fetching" /\ calls'[c].pc = "done"

\* The -1 of getDeliveryPercent, in thousandths.
Unavailable == -Pct(1)

\* C26: a cache is written only by a fetch that succeeded.  The Reddit cache
\* changes only when a fetch of fetchPosts got an OK response with JSON, and then
\* holds the posts returned and the time; a fetch that got a non-OK status or was
\* rejected returns [] and leaves posts and fetch time as they were.  A delivery
\* entry changes only when a fetch for its ticker returned a percentage; a call
\* that returns -1 leaves the Map as it was, so no entry holds -1, no call is
\* served -1 from the Map, and the next call for the same ticker fetches again.
C26_CacheWrittenOnlyBySuccess ==
    /\ [](/\ \A t \in Tickers :
                deliveryCache[t].present => deliveryCache[t].value # Unavailable
          /\ \A c \in Calls :
                (calls[c].pc = "done" /\ calls[c].adapter = "delivery" /\ calls[c].hit)
                => calls[c].value # Unavailable)
    /\ [][/\ redditCache' # redditCache =>
                \E c \in Calls :
                    /\ FetchSettles(c)
                    /\ calls'[c].adapter = "reddit"
                    /\ calls'[c].answer.kind = "json"
                    /\ redditCache' = [present |-> TRUE, posts |-> calls'[c].value,
                                       fetchedAt |-> now]
          /\ \A t \in Tickers :
                deliveryCache'[t] # deliveryCache[t] =>
                    \E c \in Calls :
                        /\ FetchSettles(c)
                        /\ calls'[c].adapter = "delivery"
                        /\ calls'[c].ticker = t
                        /\ calls'[c].answer.kind = "dp"
                        /\ calls'[c].value # Unavailable
                        /\ deliveryCache'[t] = [present |-> TRUE, value |-> calls'[c].value,
                                                fetchedAt |-> now]
          /\ \A c \in Calls :
                /\ (/\ FetchSettles(c)
                    /\ calls'[c].adapter = "reddit"
                    /\ calls'[c].answer.kind \in {"http_error", "network_error"}) =>
                      /\ calls'[c].value = <<>>
                      /\ redditCache' = redditCache
                /\ (/\ FetchSettles(c)
                    /\ calls'[c].adapter = "delivery"
                    /\ calls'[c].value = Unavailable) =>
                      deliveryCache' = deliveryCache
                /\ (/\ CallStarts(c)
                    /\ calls[c].pc = "done"
                    /\ calls[c].adapter = "delivery"
                    /\ calls[c].value = Unavailable
                    /\ calls'[c].adapter = "delivery"
                    /\ calls'[c].ticker = calls[c].ticker) =>
                      calls'[c].pc = "fetching"]_vars

\* A fetch of fetchPosts was rejected and returned [] while the cache holds the
\* posts of a fetch that has run out: posts and fetch time are still those.
C26_Witness ==
    /\ calls["c1"].pc = "done"
    /\ calls["c1"].adapter = "reddit"
    /\ ~calls["c1"].hit
    /\ calls["c1"].answer.kind = "network_error"
    /\ calls["c1"].value = <<>>
    /\ redditCache.present
    /\ redditCache.posts # <<>>
    /\ calls["c1"].at - redditCache.fetchedAt >= REDDIT_CACHE_TTL_MS

\* How often gainer g of request r occurs in its report.
TimesReported(r, g) ==
    Cardinality({k \in DOMAIN req[r].response.stocks :
        /\ req[r].response.stocks[k].symbol = req[r].gainers[g].symbol
        /\ req[r].response.stocks[k].price = req[r].gainers[g].price
        /\ req[r].response.stocks[k].changePercent = req[r].gainers[g].changePercent})

\* C27: in every report without error, totalScanned is the length of the stock
\* list and the number of gainers getTopGainers returned, which is the number of
\* quotes that qualify; every gainer is in the list exactly once and every stock
\* of the list is a gainer.
C27_EveryGainerReportedOnce ==
    \A r \in Reqs :
        (NonErrorReport(r) /\ req[r].pc = "returned") =>
            LET stocks == req[r].response.stocks
                gainers == req[r].gainers
            IN /\ req[r].response.totalScanned = Len(stocks)
               /\ req[r].response.totalScanned = Len(gainers)
               /\ Len(gainers) = Cardinality({k \in DOMAIN req[r].quotes : Qualifies(r, k)})
               /\ \A g \in DOMAIN gainers : TimesReported(r, g) = 1
               /\ \A k \in DOMAIN stocks :
                     \E g \in DOMAIN gainers : stocks[k].symbol = gainers[g].symbol

\* A report of two gainers of different status, totalScanned = 2, in which the
\* sort has put the second gainer first.
C27_Witness ==
    /\ FullReport("r1")
    /\ req["r1"].response.totalScanned = 2
    /\ Len(req["r1"].response.stocks) = 2
    /\ req["r1"].response.stocks[1].symbol = req["r1"].gainers[2].symbol
    /\ req["r1"].response.stocks[1].status # req["r1"].response.stocks[2].status

====
